---------------------------- MODULE Spec2Model ----------------------------
(***************************************************************************)
(* A model of the TimeDiff class (three-shape constructor, fromISO, toISO,  *)
(* humanize, valueOf, add, subtract) and of the part of the i18next         *)
(* singleton the class drives: isInitialized, init, changeLanguage, t.      *)
(*                                                                          *)
(* A JavaScript string is a sequence of characters, each character a       *)
(* one-character TLA+ string.  The module language has ASCII string        *)
(* literals only, so a Cyrillic letter is the string naming its code       *)
(* point ("U+0434" is the letter DE); it is still one character.            *)
(***************************************************************************)
EXTENDS Integers, Sequences, FiniteSets, TLC

VARIABLES
    navigator,   \* the runtime global `navigator`: undeclared, or its .language
    i18n,        \* the i18next singleton: isInitialized, language, who initialised it
    self,        \* the TimeDiff instance the caller holds: its milliseconds, or NoObj
    result,      \* what the last call returned or threw
    pending      \* the humanize calls that are inside i18next.changeLanguage, innermost last

vars == <<navigator, i18n, self, result, pending>>

---------------------------------------------------------------------------
(* Bounds of the model. *)

MaxDays == 22        \* days component of the magnitudes drawn
MaxTextLen == 4      \* length of the enumerated ISO input texts
MaxSmall == 1        \* magnitudes of the state machine, in units of SmallStep
MaxNesting == 2      \* humanize calls in progress at once, one inside the other

---------------------------------------------------------------------------
(* Characters and strings. *)

Str(c) == <<c>>

DigitChars == <<"0", "1", "2", "3", "4", "5", "6", "7", "8", "9">>

IsDigit(c) == \E i \in 1..10 : DigitChars[i] = c

DigitValue(c) == (CHOOSE i \in 1..10 : DigitChars[i] = c) - 1

\* `${n}` of an integer: its decimal digits, no leading zeros.
RECURSIVE NumberToString(_)
NumberToString(n) ==
    IF n < 0 THEN <<"-">> \o NumberToString(-n)
    ELSE IF n < 10 THEN <<DigitChars[n + 1]>>
    ELSE NumberToString(n \div 10) \o <<DigitChars[(n % 10) + 1]>>

\* parseInt(digits, 10) of a non-empty run of decimal digits.
RECURSIVE ParseInt(_)
ParseInt(ds) ==
    IF Len(ds) = 0 THEN 0
    ELSE ParseInt(SubSeq(ds, 1, Len(ds) - 1)) * 10 + DigitValue(ds[Len(ds)])

\* Array.prototype.join of an array of strings.
RECURSIVE Join(_, _)
Join(parts, sep) ==
    IF Len(parts) = 0 THEN <<>>
    ELSE IF Len(parts) = 1 THEN parts[1]
    ELSE parts[1] \o sep \o Join(Tail(parts), sep)

\* Array.prototype.filter(Boolean): drops '' (and 0) entries.
RECURSIVE FilterBoolean(_)
FilterBoolean(parts) ==
    IF Len(parts) = 0 THEN <<>>
    ELSE IF parts[1] = <<>> THEN FilterBoolean(Tail(parts))
    ELSE <<parts[1]>> \o FilterBoolean(Tail(parts))

\* String.prototype.startsWith.
StartsWith(s, prefix) ==
    /\ Len(s) >= Len(prefix)
    /\ SubSeq(s, 1, Len(prefix)) = prefix

EN == <<"e", "n">>
RU == <<"r", "u">>
EmptyString == <<>>


\* The Cyrillic letters of the built-in Russian resources and short suffixes.
cyr_a == "U+0430"
cyr_ve == "U+0432"
cyr_de == "U+0434"
cyr_ie == "U+0435"
cyr_i == "U+0438"
cyr_short_i == "U+0439"
cyr_ka == "U+043A"
cyr_em == "U+043C"
cyr_en == "U+043D"
cyr_o == "U+043E"
cyr_es == "U+0441"
cyr_te == "U+0442"
cyr_u == "U+0443"
cyr_che == "U+0447"
cyr_yeru == "U+044B"
cyr_soft == "U+044C"
cyr_ya == "U+044F"

---------------------------------------------------------------------------
(* JavaScript values handed to the constructor. *)

JsUndefined == [type |-> "undefined", str |-> <<>>, num |-> 0]
JsString(s) == [type |-> "string", str |-> s, num |-> 0]
JsNumber(n) == [type |-> "number", str |-> <<>>, num |-> n]
JsDate(t) == [type |-> "Date", str |-> <<>>, num |-> t]

\* Math.abs
Abs(x) == IF x < 0 THEN -x ELSE x

\* The JavaScript remainder a % b for b > 0: it has the sign of a.
JsRem(a, b) == IF a >= 0 THEN a % b ELSE -((-a) % b)

---------------------------------------------------------------------------
(* The runtime global `navigator`. *)

NavUndeclared == [declared |-> FALSE, hasLanguage |-> FALSE, language |-> <<>>]
NavNoLanguage == [declared |-> TRUE, hasLanguage |-> FALSE, language |-> <<>>]
NavLanguage(l) == [declared |-> TRUE, hasLanguage |-> TRUE, language |-> l]

\* private detectLanguage(): `navigator?.language || ''`, then startsWith('ru').
\* (Reading an undeclared `navigator` throws; see DetectLanguageThrows.)
DetectLanguage(nav) ==
    LET language == IF nav.hasLanguage /\ nav.language # <<>>
                    THEN nav.language ELSE EmptyString
    IN IF StartsWith(language, RU) THEN RU ELSE EN

\* `navigator?.language` on an undeclared global is a ReferenceError.
DetectLanguageThrows(nav) == ~nav.declared

---------------------------------------------------------------------------
(* The i18next singleton, as far as TimeDiff drives it. *)

Count == "{{count}}"

\* The resources TimeDiff passes to i18next.init.
Resources ==
    [lng \in {EN, RU} |->
        IF lng = EN THEN
            [key \in {"days", "days_plural", "hours", "hours_plural",
                      "minutes", "minutes_plural", "seconds", "seconds_plural"} |->
                CASE key = "days" -> <<Count, " ", "d", "a", "y">>
                  [] key = "days_plural" -> <<Count, " ", "d", "a", "y", "s">>
                  [] key = "hours" -> <<Count, " ", "h", "o", "u", "r">>
                  [] key = "hours_plural" -> <<Count, " ", "h", "o", "u", "r", "s">>
                  [] key = "minutes" -> <<Count, " ", "m", "i", "n", "u", "t", "e">>
                  [] key = "minutes_plural" -> <<Count, " ", "m", "i", "n", "u", "t", "e", "s">>
                  [] key = "seconds" -> <<Count, " ", "s", "e", "c", "o", "n", "d">>
                  [] key = "seconds_plural" -> <<Count, " ", "s", "e", "c", "o", "n", "d", "s">>]
        ELSE
            [key \in {"days", "days_plural", "days_plural_2",
                      "hours", "hours_plural", "hours_plural_2",
                      "minutes", "minutes_plural", "minutes_plural_2",
                      "seconds", "seconds_plural", "seconds_plural_2"} |->
                CASE key = "days" -> <<Count, " ", cyr_de, cyr_ie, cyr_en, cyr_soft>>
                  [] key = "days_plural" -> <<Count, " ", cyr_de, cyr_en, cyr_ya>>
                  [] key = "days_plural_2" -> <<Count, " ", cyr_de, cyr_en, cyr_ie, cyr_short_i>>
                  [] key = "hours" -> <<Count, " ", cyr_che, cyr_a, cyr_es>>
                  [] key = "hours_plural" -> <<Count, " ", cyr_che, cyr_a, cyr_es, cyr_a>>
                  [] key = "hours_plural_2" -> <<Count, " ", cyr_che, cyr_a, cyr_es, cyr_o, cyr_ve>>
                  [] key = "minutes" -> <<Count, " ", cyr_em, cyr_i, cyr_en, cyr_u, cyr_te, cyr_a>>
                  [] key = "minutes_plural" -> <<Count, " ", cyr_em, cyr_i, cyr_en, cyr_u, cyr_te, cyr_yeru>>
                  [] key = "minutes_plural_2" -> <<Count, " ", cyr_em, cyr_i, cyr_en, cyr_u, cyr_te>>
                  [] key = "seconds" -> <<Count, " ", cyr_es, cyr_ie, cyr_ka, cyr_u, cyr_en, cyr_de, cyr_a>>
                  [] key = "seconds_plural" -> <<Count, " ", cyr_es, cyr_ie, cyr_ka, cyr_u, cyr_en, cyr_de, cyr_yeru>>
                  [] key = "seconds_plural_2" -> <<Count, " ", cyr_es, cyr_ie, cyr_ka, cyr_u, cyr_en, cyr_de>>]]

\* Interpolation of a template: every {{count}} becomes the count's digits.
RECURSIVE Interpolate(_, _)
Interpolate(template, count) ==
    IF Len(template) = 0 THEN <<>>
    ELSE (IF template[1] = Count THEN NumberToString(count) ELSE <<template[1]>>)
         \o Interpolate(Tail(template), count)

\* i18next.t(key, { count }) in the active language: the template stored under
\* exactly that key, interpolated; a key the language lacks comes back as is.
T(lng, key, count) ==
    IF key \in DOMAIN Resources[lng]
    THEN Interpolate(Resources[lng][key], count)
    ELSE <<key>>

\* The singleton before anyone has initialised it.
I18nFresh == [isInitialized |-> FALSE, language |-> EmptyString, by |-> "nobody", inits |-> 0]

\* i18next.changeLanguage(lng)
ChangeLanguage(i, lng) == [i EXCEPT !.language = lng]

\* The constructor calling i18next.init without looking at isInitialized.
InitI18n_Always(i, nav) ==
    IF DetectLanguageThrows(nav) THEN [i18n |-> i, thrown |-> "ReferenceError"]
    ELSE [i18n |-> [isInitialized |-> TRUE, language |-> DetectLanguage(nav),
                    by |-> "TimeDiff", inits |-> i.inits + 1],
          thrown |-> ""]

\* The constructor's `if (!i18next.isInitialized) i18next.init({lng: detectLanguage(), ...})`.
\* thrown is "" when the block completes.
InitI18n(i, nav) ==
    IF i.isInitialized THEN [i18n |-> i, thrown |-> ""]
    ELSE IF DetectLanguageThrows(nav) THEN [i18n |-> i, thrown |-> "ReferenceError"]
    ELSE [i18n |-> [isInitialized |-> TRUE, language |-> DetectLanguage(nav),
                    by |-> "TimeDiff", inits |-> i.inits + 1],
          thrown |-> ""]

---------------------------------------------------------------------------
(* class TimeDiff: the pure parts. *)

InvalidIso == "Invalid ISO 8601 duration format"
InvalidArgs == "Invalid constructor arguments"
ReferenceError == "ReferenceError"

\* calculateDiff with the hours taken from the whole magnitude.
CalculateDiff_HoursOfTotal(ms) ==
    [days |-> ms \div (1000 * 60 * 60 * 24),
     hours |-> ms \div (1000 * 60 * 60),
     minutes |-> JsRem(ms, 1000 * 60 * 60) \div (1000 * 60),
     seconds |-> JsRem(ms, 1000 * 60) \div 1000]

\* calculateDiff rounding the seconds to the nearest instead of down.
CalculateDiff_RoundSeconds(ms) ==
    [days |-> ms \div (1000 * 60 * 60 * 24),
     hours |-> JsRem(ms, 1000 * 60 * 60 * 24) \div (1000 * 60 * 60),
     minutes |-> JsRem(ms, 1000 * 60 * 60) \div (1000 * 60),
     seconds |-> (JsRem(ms, 1000 * 60) + 500) \div 1000]

\* private calculateDiff(): Math.floor of the quotients, JavaScript remainders.
CalculateDiff(ms) ==
    [days |-> ms \div (1000 * 60 * 60 * 24),
     hours |-> JsRem(ms, 1000 * 60 * 60 * 24) \div (1000 * 60 * 60),
     minutes |-> JsRem(ms, 1000 * 60 * 60) \div (1000 * 60),
     seconds |-> JsRem(ms, 1000 * 60) \div 1000]

\* toISO leaving out the numbers that are zero.
ToISO_OmitZero(ms) ==
    <<"P">>
    \o (IF CalculateDiff(ms).days = 0 THEN <<>>
        ELSE NumberToString(CalculateDiff(ms).days) \o <<"D">>)
    \o <<"T">>
    \o (IF CalculateDiff(ms).hours = 0 THEN <<>>
        ELSE NumberToString(CalculateDiff(ms).hours) \o <<"H">>)
    \o (IF CalculateDiff(ms).minutes = 0 THEN <<>>
        ELSE NumberToString(CalculateDiff(ms).minutes) \o <<"M">>)
    \o (IF CalculateDiff(ms).seconds = 0 THEN <<>>
        ELSE NumberToString(CalculateDiff(ms).seconds) \o <<"S">>)

\* toISO(): `P${days}DT${hours}H${minutes}M${seconds}S`
ToISO(ms) ==
    LET d == CalculateDiff(ms)
    IN <<"P">> \o NumberToString(d.days) \o <<"D", "T">>
       \o NumberToString(d.hours) \o <<"H">>
       \o NumberToString(d.minutes) \o <<"M">>
       \o NumberToString(d.seconds) \o <<"S">>

\* The index after the longest run of digits of s that starts at p (\d+, greedy).
RECURSIVE DigitsEnd(_, _)
DigitsEnd(s, p) ==
    IF p <= Len(s) /\ IsDigit(s[p]) THEN DigitsEnd(s, p + 1) ELSE p

\* One optional group (?:(\d+)X)? tried at p, e being the end of the digits
\* at p: the group is taken whenever it fits.
GroupAt(s, p, e, letter) ==
    IF e > p /\ e <= Len(s) /\ s[e] = letter
    THEN [matched |-> TRUE, digits |-> SubSeq(s, p, e - 1), next |-> e + 1]
    ELSE [matched |-> FALSE, digits |-> <<>>, next |-> p]

Group(s, p, letter) == GroupAt(s, p, DigitsEnd(s, p), letter)

NoMatch == [ok |-> FALSE]

\* /P(?:(\d+)D)?T(?:(\d+)H)?(?:(\d+)M)?(?:(\d+)S)?/ tried at index i of s:
\* P, the D group, T, then the H, M and S groups.
MatchS(i, gD, gH, gM, gS) ==
    [ok |-> TRUE, from |-> i, to |-> gS.next - 1, D |-> gD, H |-> gH, M |-> gM, S |-> gS]

MatchM(s, i, gD, gH, gM) == MatchS(i, gD, gH, gM, Group(s, gM.next, "S"))

MatchH(s, i, gD, gH) == MatchM(s, i, gD, gH, Group(s, gH.next, "M"))

MatchT(s, i, gD) ==
    IF gD.next <= Len(s) /\ s[gD.next] = "T"
    THEN MatchH(s, i, gD, Group(s, gD.next + 1, "H"))
    ELSE NoMatch

MatchAt(s, i) ==
    IF i <= Len(s) /\ s[i] = "P" THEN MatchT(s, i, Group(s, i + 1, "D")) ELSE NoMatch

\* isoString.match(isoRegex): the expression has no ^ and no $, so the match
\* is the leftmost one anywhere in the string, tried from index i on.
RECURSIVE MatchFrom(_, _)
MatchFrom(s, i) ==
    IF i > Len(s) THEN NoMatch
    ELSE IF MatchAt(s, i).ok THEN MatchAt(s, i)
    ELSE MatchFrom(s, i + 1)

IsoMatch(s) == MatchFrom(s, 1)

\* parseInt reading the first digit only.
Component_FirstDigit(g) == ParseInt(IF g.matched THEN <<g.digits[1]>> ELSE <<"0">>)

\* parseInt(match[k] || '0', 10)
Component(g) == ParseInt(IF g.matched THEN g.digits ELSE <<"0">>)

\* fromISO weighting the minutes as hours.
IsoMilliseconds_MinutesAsHours(m) ==
    Component(m.D) * 24 * 60 * 60 * 1000
    + Component(m.H) * 60 * 60 * 1000
    + Component(m.M) * 60 * 60 * 1000
    + Component(m.S) * 1000

\* fromISO holding each clock component inside its range.
IsoMilliseconds_InRange(m) ==
    Component(m.D) * 24 * 60 * 60 * 1000
    + (IF Component(m.H) > 23 THEN 23 ELSE Component(m.H)) * 60 * 60 * 1000
    + (IF Component(m.M) > 59 THEN 59 ELSE Component(m.M)) * 60 * 1000
    + (IF Component(m.S) > 59 THEN 59 ELSE Component(m.S)) * 1000

\* The milliseconds fromISO computes from a match.
IsoMilliseconds(m) ==
    Component(m.D) * 24 * 60 * 60 * 1000
    + Component(m.H) * 60 * 60 * 1000
    + Component(m.M) * 60 * 1000
    + Component(m.S) * 1000

\* getPluralKeyForRu without the exceptions for 11 to 19.
GetPluralKeyForRu_NoTeens(unit, singularKey, pluralKey1, pluralKey2) ==
    IF JsRem(unit, 10) = 1 THEN singularKey
    ELSE IF JsRem(unit, 10) >= 2 /\ JsRem(unit, 10) <= 4 THEN pluralKey1
    ELSE pluralKey2

\* private getPluralKeyForRu(unit, singularKey, pluralKey1, pluralKey2)
GetPluralKeyForRu(unit, singularKey, pluralKey1, pluralKey2) ==
    LET lastDigit == JsRem(unit, 10)
        lastTwoDigits == JsRem(unit, 100)
    IN IF lastDigit = 1 /\ lastTwoDigits # 11 THEN singularKey
       ELSE IF lastDigit >= 2 /\ lastDigit <= 4
               /\ (lastTwoDigits < 10 \/ lastTwoDigits >= 20) THEN pluralKey1
       ELSE pluralKey2

\* The key humanize's formatUnit closure hands to i18next.t.
FormatUnitKey(unit, singularKey, pluralKey, pluralKey2, locale) ==
    IF locale = RU
    THEN GetPluralKeyForRu(unit, singularKey, pluralKey, pluralKey2)
    ELSE IF unit = 1 THEN singularKey ELSE pluralKey

\* formatUnit(unit, singularKey, pluralKey, pluralKey2), i18next's language being lng.
FormatUnit(unit, singularKey, pluralKey, pluralKey2, locale, lng) ==
    T(lng, FormatUnitKey(unit, singularKey, pluralKey, pluralKey2, locale), unit)

\* The i18next.t call formatUnit makes, as logged in result.tcalls.
TCall(unit, singularKey, pluralKey, pluralKey2, locale) ==
    [key |-> FormatUnitKey(unit, singularKey, pluralKey, pluralKey2, locale),
     count |-> unit]

Units == <<"days", "hours", "minutes", "seconds">>

\* The three keys of a unit, as written at each formatUnit call site.
SingularKey(unit) == unit
PluralKey(unit) ==
    CASE unit = "days" -> "days_plural" [] unit = "hours" -> "hours_plural"
      [] unit = "minutes" -> "minutes_plural" [] unit = "seconds" -> "seconds_plural"
PluralKey2(unit) ==
    CASE unit = "days" -> "days_plural_2" [] unit = "hours" -> "hours_plural_2"
      [] unit = "minutes" -> "minutes_plural_2" [] unit = "seconds" -> "seconds_plural_2"

\* The zero duration string always in seconds, whatever the baseUnit.
ZeroDurationUnit_Seconds(baseUnit) == "seconds"

\* humanize, zero duration: `switch (baseUnit)`; every case is formatUnit(0, ...).
ZeroDurationUnit(baseUnit) ==
    CASE baseUnit = "days" -> "days"
      [] baseUnit = "hours" -> "hours"
      [] baseUnit = "minutes" -> "minutes"
      [] OTHER -> "seconds"

\* A unit rendered also when its value is zero.
UnitStr_RenderZero(value, unit, locale, lng) ==
    FormatUnit(value, SingularKey(unit), PluralKey(unit), PluralKey2(unit), locale, lng)

\* const daysStr = days > 0 ? formatUnit(days, 'days', ...) : '' (and the other three)
UnitStr(value, unit, locale, lng) ==
    IF value > 0
    THEN FormatUnit(value, SingularKey(unit), PluralKey(unit), PluralKey2(unit), locale, lng)
    ELSE EmptyString

UnitCalls(value, unit, locale) ==
    IF value > 0
    THEN <<TCall(value, SingularKey(unit), PluralKey(unit), PluralKey2(unit), locale)>>
    ELSE <<>>

\* The short token with the English letter for every locale.
ShortPart_English(value, locale, ru, en) ==
    IF value = 0 THEN EmptyString ELSE NumberToString(value) \o <<en>>

\* days && `${days}${locale === 'ru' ? ru : en}`: 0 stays 0 and filter(Boolean) drops it.
ShortPart(value, locale, ru, en) ==
    IF value = 0 THEN EmptyString
    ELSE NumberToString(value) \o (IF locale = RU THEN <<ru>> ELSE <<en>>)

\* humanize, format 'short'
HumanizeShort(d, locale) ==
    Join(FilterBoolean(<<ShortPart(d.days, locale, cyr_de, "d"),
                         ShortPart(d.hours, locale, cyr_che, "h"),
                         ShortPart(d.minutes, locale, cyr_em, "m"),
                         ShortPart(d.seconds, locale, cyr_es, "s")>>),
         <<" ">>)

\* humanize, format 'long': [daysStr, hoursStr, minutesStr, secondsStr].filter(Boolean).join(', ')
HumanizeLong(d, locale, lng) ==
    Join(FilterBoolean(<<UnitStr(d.days, "days", locale, lng),
                         UnitStr(d.hours, "hours", locale, lng),
                         UnitStr(d.minutes, "minutes", locale, lng),
                         UnitStr(d.seconds, "seconds", locale, lng)>>),
         <<",", " ">>)

\* The detected language taken whatever the locale argument.
EffectiveLanguage_Detected(locale, nav) == DetectLanguage(nav)

\* The effective language of a humanize call: locale || this.detectLanguage()
EffectiveLanguage(locale, nav) ==
    IF locale # EmptyString THEN locale ELSE DetectLanguage(nav)

IsZeroDuration(d) == d.days = 0 /\ d.hours = 0 /\ d.minutes = 0 /\ d.seconds = 0

NoDiff == [days |-> 0, hours |-> 0, minutes |-> 0, seconds |-> 0]

\* The breakdown cut below the base unit.
CutBelow(d, zu) ==
    CASE zu = "days" -> [d EXCEPT !.hours = 0, !.minutes = 0, !.seconds = 0]
      [] zu = "hours" -> [d EXCEPT !.minutes = 0, !.seconds = 0]
      [] zu = "minutes" -> [d EXCEPT !.seconds = 0]
      [] OTHER -> d

\* humanize taking the base unit as the smallest unit it writes.
Rendered_BaseUnitSmallest(d, locale, format, zu, lng, i) ==
    [thrown |-> "",
     str |-> IF IsZeroDuration(d)
             THEN FormatUnit(0, SingularKey(zu), PluralKey(zu), PluralKey2(zu), locale, lng)
             ELSE IF format = "short" THEN HumanizeShort(CutBelow(d, zu), locale)
             ELSE HumanizeLong(CutBelow(d, zu), locale, lng),
     i18n |-> ChangeLanguage(i, lng),
     tcalls |-> IF IsZeroDuration(d)
                THEN <<TCall(0, SingularKey(zu), PluralKey(zu), PluralKey2(zu), locale)>>
                ELSE UnitCalls(d.days, "days", locale) \o UnitCalls(d.hours, "hours", locale)
                     \o UnitCalls(d.minutes, "minutes", locale)
                     \o UnitCalls(d.seconds, "seconds", locale),
     diff |-> d]

\* humanize past its `iso` return: d the breakdown, zu the unit of the zero
\* duration string, lng the language i18next is switched to.
Rendered(d, locale, format, zu, lng, i) ==
    [thrown |-> "",
     str |-> IF IsZeroDuration(d)
             THEN FormatUnit(0, SingularKey(zu), PluralKey(zu), PluralKey2(zu), locale, lng)
             ELSE IF format = "short" THEN HumanizeShort(d, locale)
             ELSE HumanizeLong(d, locale, lng),
     i18n |-> ChangeLanguage(i, lng),
     tcalls |-> IF IsZeroDuration(d)
                THEN <<TCall(0, SingularKey(zu), PluralKey(zu), PluralKey2(zu), locale)>>
                ELSE UnitCalls(d.days, "days", locale) \o UnitCalls(d.hours, "hours", locale)
                     \o UnitCalls(d.minutes, "minutes", locale)
                     \o UnitCalls(d.seconds, "seconds", locale),
     diff |-> d]

\* humanize(locale, format, baseUnit) of an instance of ms milliseconds: what
\* it returns or throws, the singleton afterwards, the i18next.t calls made.
Humanize(ms, locale, format, baseUnit, i, nav) ==
    IF format = "iso"
    THEN [thrown |-> "", str |-> ToISO(ms), i18n |-> i, tcalls |-> <<>>, diff |-> NoDiff]
    ELSE IF locale = EmptyString /\ DetectLanguageThrows(nav)
    THEN [thrown |-> ReferenceError, str |-> <<>>, i18n |-> i, tcalls |-> <<>>,
          diff |-> CalculateDiff(ms)]
    ELSE Rendered(CalculateDiff(ms), locale, format, ZeroDurationUnit(baseUnit),
                  EffectiveLanguage(locale, nav), i)

\* An instance of ms milliseconds leaves the constructor once its i18next block
\* has run (init: what InitI18n gave).
Constructed(ms, init) == [thrown |-> init.thrown, ms |-> ms, i18n |-> init.i18n]

Thrown(error, i) == [thrown |-> error, ms |-> 0, i18n |-> i]

\* fromISO past the match: throw, or `new TimeDiff(milliseconds)`.
FromMatch(m, i, nav) ==
    IF ~m.ok THEN Thrown(InvalidIso, i)
    ELSE Constructed(IsoMilliseconds(m), InitI18n(i, nav))

\* static fromISO(isoString)
FromISO(isoString, i, nav) == FromMatch(IsoMatch(isoString), i, nav)

\* The string shape of the constructor: `this.milliseconds = TimeDiff.fromISO(arg1).milliseconds`
\* (r: what fromISO gave), then the constructor's own i18next block.
FromString(r, nav) ==
    IF r.thrown # "" THEN r ELSE Constructed(r.ms, InitI18n(r.i18n, nav))

\* The two dates subtracted without Math.abs.
DateDifference_Signed(date1, date2) == date2.num - date1.num

\* Math.abs(arg2.getTime() - arg1.getTime())
DateDifference(date1, date2) == Abs(date2.num - date1.num)

\* The constructor running its i18next block before it looks at its arguments.
Constructor_InitFirst(arg1, arg2, i, nav) ==
    LET init == InitI18n(i, nav) IN
    IF init.thrown # "" THEN Thrown(init.thrown, i)
    ELSE IF arg1.type = "string"
    THEN (IF IsoMatch(arg1.str).ok
          THEN Constructed(IsoMilliseconds(IsoMatch(arg1.str)), init)
          ELSE Thrown(InvalidIso, init.i18n))
    ELSE IF arg1.type = "number"
    THEN (IF arg2.type # "undefined" THEN Thrown(InvalidArgs, init.i18n)
          ELSE Constructed(arg1.num, init))
    ELSE IF arg1.type = "Date" /\ arg2.type = "Date"
    THEN Constructed(DateDifference(arg1, arg2), init)
    ELSE Thrown(InvalidArgs, init.i18n)

\* constructor(arg1, arg2?): the three shapes, then the i18next block.
Constructor(arg1, arg2, i, nav) ==
    IF arg1.type = "string" THEN FromString(FromISO(arg1.str, i, nav), nav)
    ELSE IF arg1.type = "number"
    THEN (IF arg2.type # "undefined" THEN Thrown(InvalidArgs, i)
          ELSE Constructed(arg1.num, InitI18n(i, nav)))
    ELSE IF arg1.type = "Date" /\ arg2.type = "Date"
    THEN Constructed(DateDifference(arg1, arg2), InitI18n(i, nav))
    ELSE Thrown(InvalidArgs, i)

\* add returning its first operand.
Add_FirstOperand(a, b, i, nav) == Constructor(JsNumber(a), JsUndefined, i, nav)

\* static add(a, b): new TimeDiff(a.milliseconds + b.milliseconds), a and b
\* being the milliseconds of the two instances.
Add(a, b, i, nav) == Constructor(JsNumber(a + b), JsUndefined, i, nav)

\* subtract without Math.abs.
Subtract_Signed(a, b, i, nav) == Constructor(JsNumber(a - b), JsUndefined, i, nav)

\* static subtract(a, b): new TimeDiff(Math.abs(a.milliseconds - b.milliseconds))
Subtract(a, b, i, nav) == Constructor(JsNumber(Abs(a - b)), JsUndefined, i, nav)

\* The members an instance of class TimeDiff has: its methods (private ones
\* are ordinary properties at run time).
InstanceMembers ==
    {"detectLanguage", "calculateDiff", "toISO", "humanize", "valueOf", "getPluralKeyForRu"}

\* Calling a property the instance does not have.
TypeError == "TypeError"

\* a.plus(b): TimeDiff.add(this, other) where the class declares plus (the
\* earlier version of the class does); a TypeError where it does not.
Plus(a, b, i, nav) ==
    IF "plus" \in InstanceMembers THEN Add(a, b, i, nav) ELSE Thrown(TypeError, i)

\* a.minus(b): TimeDiff.subtract(this, other) where the class declares minus.
Minus(a, b, i, nav) ==
    IF "minus" \in InstanceMembers THEN Subtract(a, b, i, nav) ELSE Thrown(TypeError, i)

---------------------------------------------------------------------------
(* The state machine: a caller holding an instance makes one call at a      *)
(* time and keeps the instance a call returns; the environment may change   *)
(* `navigator`, and a hosting application may initialise i18next itself.    *)

NoObj == [exists |-> FALSE, milliseconds |-> 0]
Obj(ms) == [exists |-> TRUE, milliseconds |-> ms]

\* What a call left behind: the operation, its arguments, and what it
\* returned (str, or num: the milliseconds of a returned instance) or threw
\* (thrown, "" when it returned).
Res(op, thrown) ==
    [op |-> op, thrown |-> thrown, str |-> <<>>, num |-> 0,
     arg1 |-> JsUndefined, arg2 |-> JsUndefined,
     locale |-> <<>>, format |-> "", baseUnit |-> "",
     diff |-> NoDiff, tcalls |-> <<>>]

NoResult == Res("none", "")

\* A call that returns an instance (r: what it gave): the caller keeps the
\* instance; a call that throws returns none.
Returned(op, arg1, arg2, r) ==
    /\ i18n' = r.i18n
    /\ self' = IF r.thrown = "" THEN Obj(r.ms) ELSE self
    /\ result' = [Res(op, r.thrown) EXCEPT !.arg1 = arg1, !.arg2 = arg2, !.num = r.ms]
    /\ UNCHANGED <<navigator, pending>>

\* new TimeDiff(arg1, arg2)
ConstructCall(arg1, arg2) ==
    Returned("new", arg1, arg2, Constructor(arg1, arg2, i18n, navigator))

\* TimeDiff.fromISO(text)
FromISOCall(text) ==
    Returned("fromISO", JsString(text), JsUndefined, FromISO(text, i18n, navigator))

\* self.toISO()
ToISOCall ==
    /\ self.exists
    /\ result' = [Res("toISO", "") EXCEPT !.str = ToISO(self.milliseconds),
                                          !.num = self.milliseconds,
                                          !.diff = CalculateDiff(self.milliseconds)]
    /\ UNCHANGED <<navigator, i18n, self, pending>>

\* self.valueOf()
ValueOfCall ==
    /\ self.exists
    /\ result' = [Res("valueOf", "") EXCEPT !.num = self.milliseconds]
    /\ UNCHANGED <<navigator, i18n, self, pending>>

\* A humanize call (r: what it gave).
Humanized(locale, format, baseUnit, r) ==
    /\ i18n' = r.i18n
    /\ result' = [Res("humanize", r.thrown) EXCEPT
                      !.str = r.str, !.locale = locale, !.format = format,
                      !.baseUnit = baseUnit, !.diff = r.diff, !.tcalls = r.tcalls]
    /\ UNCHANGED <<navigator, self, pending>>

\* self.humanize(locale, format, baseUnit)
HumanizeCall(locale, format, baseUnit) ==
    /\ self.exists
    /\ Humanized(locale, format, baseUnit,
                 Humanize(self.milliseconds, locale, format, baseUnit, i18n, navigator))

\* TimeDiff.add(self, b), b an instance of b milliseconds.
AddCall(b, max) ==
    /\ self.exists
    /\ Abs(self.milliseconds + b) <= max
    /\ Returned("add", JsNumber(self.milliseconds), JsNumber(b),
                Add(self.milliseconds, b, i18n, navigator))

\* TimeDiff.subtract(self, b), b an instance of b milliseconds.
SubtractCall(b, max) ==
    /\ self.exists
    /\ Abs(self.milliseconds - b) <= max
    /\ Returned("subtract", JsNumber(self.milliseconds), JsNumber(b),
                Subtract(self.milliseconds, b, i18n, navigator))

\* self.plus(b), b an instance of b milliseconds.
PlusCall(b, max) ==
    /\ self.exists
    /\ Abs(self.milliseconds + b) <= max
    /\ Returned("plus", JsNumber(self.milliseconds), JsNumber(b),
                Plus(self.milliseconds, b, i18n, navigator))

\* self.minus(b), b an instance of b milliseconds.
MinusCall(b, max) ==
    /\ self.exists
    /\ Abs(self.milliseconds - b) <= max
    /\ Returned("minus", JsNumber(self.milliseconds), JsNumber(b),
                Minus(self.milliseconds, b, i18n, navigator))

\* The environment: `navigator` is replaced (the tests assign global.navigator).
SetNavigator(nav) ==
    /\ navigator # nav
    /\ navigator' = nav
    /\ UNCHANGED <<i18n, self, result, pending>>

\* The hosting application initialises i18next itself, before TimeDiff does.
HostInit(lng) ==
    /\ ~i18n.isInitialized
    /\ i18n' = [i18n EXCEPT !.isInitialized = TRUE, !.language = lng, !.by = "host"]
    /\ UNCHANGED <<navigator, self, result, pending>>

---------------------------------------------------------------------------
(* Inputs. *)

Locales == {EmptyString, EN, RU}
Formats == {"long", "short", "iso"}
BaseUnits == {"days", "hours", "minutes", "seconds"}

Navigators ==
    {NavUndeclared, NavNoLanguage,
     NavLanguage(<<"e", "n", "-", "U", "S">>), NavLanguage(<<"r", "u", "-", "R", "U">>)}

\* Milliseconds of a breakdown.
Millis(d, h, m, s) == d * 86400000 + h * 3600000 + m * 60000 + s * 1000

\* The state machine works on multiples of thirty seconds.
SmallStep == 30 * 1000
SmallNumbers == {k * SmallStep : k \in -1..MaxSmall}
SmallDates == {JsDate(0), JsDate(SmallStep)}
SmallTexts == {<<"P", "T", "3", "0", "S">>, <<"x", "P", "T">>, <<"P", "1", "D">>}
SmallArg1 ==
    {JsNumber(n) : n \in SmallNumbers} \cup SmallDates
    \cup {JsString(t) : t \in SmallTexts} \cup {JsUndefined}
SmallArg2 == {JsUndefined, JsNumber(SmallStep), JsDate(SmallStep)}
SmallBaseUnits == {"seconds", "days"}
MaxMagnitude == 2 * MaxSmall * SmallStep

Init ==
    /\ navigator \in Navigators
    /\ i18n = I18nFresh
    /\ self = NoObj
    /\ result = NoResult
    /\ pending = <<>>

Next ==
    \/ \E a1 \in SmallArg1, a2 \in SmallArg2 : ConstructCall(a1, a2)
    \/ \E t \in SmallTexts : FromISOCall(t)
    \/ ToISOCall
    \/ ValueOfCall
    \/ \E l \in Locales, f \in Formats, b \in SmallBaseUnits : HumanizeCall(l, f, b)
    \/ \E b \in SmallNumbers : AddCall(b, MaxMagnitude)
    \/ \E b \in SmallNumbers : SubtractCall(b, MaxMagnitude)
    \/ \E b \in SmallNumbers : PlusCall(b, MaxMagnitude)
    \/ \E b \in SmallNumbers : MinusCall(b, MaxMagnitude)
    \/ \E nav \in Navigators : SetNavigator(nav)
    \/ \E lng \in {EN, RU} : HostInit(lng)

Spec == Init /\ [][Next]_vars

---------------------------------------------------------------------------
(* Formatting as a function of the magnitude: an instance is constructed    *)
(* from an integer drawn from FormatMagnitudes, then one of toISO and       *)
(* humanize is called on it; fromISO is applied to what toISO returned.     *)

\* Every value of one component alone, and the corners of all four together.
WholeSeconds ==
    {Millis(d, 0, 0, 0) : d \in 0..MaxDays} \cup {Millis(0, h, 0, 0) : h \in 0..23}
    \cup {Millis(0, 0, m, 0) : m \in 0..59} \cup {Millis(0, 0, 0, s) : s \in 0..59}
    \cup {Millis(d, h, m, s) : d \in {0, 1, MaxDays}, h \in {0, 1, 23},
                               m \in {0, 1, 59}, s \in {0, 1, 59}}

SubSeconds == {0, 1, 999}

\* The magnitudes of the tests and of the pluralization table.
ExampleMagnitudes == {Millis(1, 1, 2, 3), Millis(1, 2, 3, 4), Millis(23, 0, 0, 0)}

FormatMagnitudes == {w + r : w \in WholeSeconds, r \in SubSeconds} \cup ExampleMagnitudes

FormatNavigators ==
    {NavLanguage(<<"e", "n", "-", "U", "S">>), NavLanguage(<<"r", "u", "-", "R", "U">>)}

FormatInit ==
    \E ms \in FormatMagnitudes, nav \in FormatNavigators :
        /\ navigator = nav
        /\ i18n = Constructor(JsNumber(ms), JsUndefined, I18nFresh, nav).i18n
        /\ self = Obj(ms)
        /\ result = [Res("new", "") EXCEPT !.arg1 = JsNumber(ms), !.num = ms]
        /\ pending = <<>>

FormatNext ==
    \/ /\ result.op = "new"
       /\ \E l \in Locales, f \in Formats, b \in BaseUnits : HumanizeCall(l, f, b)
    \/ /\ result.op = "new"
       /\ ToISOCall
    \/ /\ result.op = "toISO"
       /\ FromISOCall(result.str)

SpecFormat == FormatInit /\ [][FormatNext]_vars

---------------------------------------------------------------------------
(* Properties of the breakdown and of the ISO text. *)

\* The decimal numeral of a number below 100, written out.
Decimal2(n) ==
    IF n < 10 THEN <<DigitChars[n + 1]>>
    ELSE <<DigitChars[(n \div 10) + 1], DigitChars[(n % 10) + 1]>>

Breakdown(d, h, m, s) == [days |-> d, hours |-> h, minutes |-> m, seconds |-> s]

\* The ISO text of a breakdown, all four numbers present.
IsoText(b) ==
    <<"P">> \o Decimal2(b.days) \o <<"D", "T">> \o Decimal2(b.hours) \o <<"H">>
    \o Decimal2(b.minutes) \o <<"M">> \o Decimal2(b.seconds) \o <<"S">>

\* C1: a value constructed from the integer d*86400000 + h*3600000 + m*60000
\* + s*1000, with h < 24, m < 60, s < 60, has the breakdown exactly {d, h, m, s}.
\* The breakdown toISO works from is in result.diff.  A whole number of
\* seconds has one such decomposition only, so the breakdown is {d, h, m, s}
\* exactly when it is within these ranges and has that weighted sum; the
\* corner decompositions are also compared directly.
C1_Breakdown ==
    (result.op = "toISO" /\ self.milliseconds >= 0 /\ self.milliseconds % 1000 = 0) =>
        /\ result.diff.days >= 0
        /\ result.diff.hours \in 0..23
        /\ result.diff.minutes \in 0..59
        /\ result.diff.seconds \in 0..59
        /\ Millis(result.diff.days, result.diff.hours, result.diff.minutes,
                  result.diff.seconds) = self.milliseconds
        /\ \A d \in {0, 1, MaxDays}, h \in {0, 1, 23}, m \in {0, 1, 59}, s \in {0, 1, 59} :
               self.milliseconds = Millis(d, h, m, s) => result.diff = Breakdown(d, h, m, s)

C1_Witness ==
    /\ result.op = "toISO"
    /\ self.milliseconds = Millis(MaxDays, 23, 59, 59)
    /\ result.diff = Breakdown(MaxDays, 23, 59, 59)

\* C2: for every value x of a whole number of seconds, fromISO(x.toISO()).valueOf()
\* equals x.valueOf().  The step is fromISO applied to the text toISO just
\* returned for x (result.num is x.valueOf() before, the parsed value after).
C2_RoundTrip ==
    [][(/\ result.op = "toISO"
        /\ result.num >= 0
        /\ result.num % 1000 = 0
        /\ result'.op = "fromISO"
        /\ result'.arg1 = JsString(result.str))
       => (result'.thrown = "" /\ result'.num = result.num /\ self' = Obj(result.num))]_vars

C2_Witness ==
    /\ result.op = "fromISO"
    /\ result.thrown = ""
    /\ result.arg1.str = IsoText(Breakdown(MaxDays, 23, 59, 59))
    /\ result.num = Millis(MaxDays, 23, 59, 59)

\* C10: toISO() returns exactly P{days}DT{hours}H{minutes}M{seconds}S of the
\* breakdown, all four numbers present also when zero (0 gives P0DT0H0M0S,
\* 90123000 gives P1DT1H2M3S), and humanize(locale, 'iso', baseUnit) returns
\* that same text for every locale and baseUnit.
C10_ToISO ==
    /\ result.op = "toISO" =>
           /\ result.str = IsoText(result.diff)
           /\ self.milliseconds \in 0..999 =>
                  result.str = <<"P", "0", "D", "T", "0", "H", "0", "M", "0", "S">>
           /\ self.milliseconds = 90123000 =>
                  result.str = <<"P", "1", "D", "T", "1", "H", "2", "M", "3", "S">>
    /\ (result.op = "humanize" /\ result.format = "iso") =>
           /\ result.thrown = ""
           /\ result.str = IsoText(CalculateDiff(self.milliseconds))
           /\ self.milliseconds = 90123000 =>
                  result.str = <<"P", "1", "D", "T", "1", "H", "2", "M", "3", "S">>

C10_Witness ==
    /\ result.op = "humanize"
    /\ result.format = "iso"
    /\ result.locale = RU
    /\ result.baseUnit = "days"
    /\ self.milliseconds = 0
    /\ result.str = <<"P", "0", "D", "T", "0", "H", "0", "M", "0", "S">>

---------------------------------------------------------------------------
(* Properties of humanize. *)

UnitNames == {"days", "hours", "minutes", "seconds"}

\* The resource key of each unit and plural class.
KeyTable ==
    [u \in UnitNames |->
        CASE u = "days" -> [singular |-> "days", few |-> "days_plural", many |-> "days_plural_2"]
          [] u = "hours" -> [singular |-> "hours", few |-> "hours_plural", many |-> "hours_plural_2"]
          [] u = "minutes" -> [singular |-> "minutes", few |-> "minutes_plural",
                               many |-> "minutes_plural_2"]
          [] u = "seconds" -> [singular |-> "seconds", few |-> "seconds_plural",
                               many |-> "seconds_plural_2"]]

KeysOf(u) == {KeyTable[u].singular, KeyTable[u].few, KeyTable[u].many}

\* English: singular for 1, plural (the key <unit>_plural) otherwise.
EnClass(n) == IF n = 1 THEN "singular" ELSE "few"

\* Russian, three-way.
RuClass(n) ==
    IF n % 10 = 1 /\ n % 100 # 11 THEN "singular"
    ELSE IF (2 <= n % 10 /\ n % 10 <= 4) /\ ~(10 <= n % 100 /\ n % 100 <= 19) THEN "few"
    ELSE "many"

\* The Russian words for days.
RuDayWord ==
    [singular |-> <<cyr_de, cyr_ie, cyr_en, cyr_soft>>,
     few |-> <<cyr_de, cyr_en, cyr_ya>>,
     many |-> <<cyr_de, cyr_en, cyr_ie, cyr_short_i>>]

ValueOfUnit(b, u) ==
    CASE u = "days" -> b.days [] u = "hours" -> b.hours
      [] u = "minutes" -> b.minutes [] u = "seconds" -> b.seconds

IsHumanized(formats) ==
    /\ result.op = "humanize"
    /\ result.thrown = ""
    /\ result.format \in formats
    /\ self.milliseconds >= 0

\* C5: for every unit value n rendered by humanize in long format the
\* template class selected is, with locale 'en', singular iff n = 1 and plural
\* otherwise; with locale 'ru', singular iff n % 10 = 1 and n % 100 # 11, few
\* iff 2 <= n % 10 <= 4 and not 10 <= n % 100 <= 19, and many otherwise; for
\* days 0, 1, 2, 5, 11, 21, 23 the Russian words are those of the table.
C5_PluralClass ==
    (IsHumanized({"long"}) /\ result.locale \in {EN, RU}) =>
        /\ \A k \in 1..Len(result.tcalls) :
               \E u \in UnitNames :
                   result.tcalls[k].key =
                       KeyTable[u][IF result.locale = EN
                                   THEN EnClass(result.tcalls[k].count)
                                   ELSE RuClass(result.tcalls[k].count)]
        /\ result.locale = RU =>
               /\ \A n \in {1, 21} :
                      self.milliseconds = Millis(n, 0, 0, 0) =>
                          result.str = Decimal2(n) \o <<" ">> \o RuDayWord.singular
               /\ \A n \in {2, 23} :
                      self.milliseconds = Millis(n, 0, 0, 0) =>
                          result.str = Decimal2(n) \o <<" ">> \o RuDayWord.few
               /\ \A n \in {5, 11} :
                      self.milliseconds = Millis(n, 0, 0, 0) =>
                          result.str = Decimal2(n) \o <<" ">> \o RuDayWord.many
               /\ (self.milliseconds = 0 /\ result.baseUnit = "days") =>
                      result.str = <<"0", " ">> \o RuDayWord.many

C5_Witness ==
    /\ IsHumanized({"long"})
    /\ result.locale = RU
    /\ self.milliseconds = Millis(11, 0, 0, 0)
    /\ result.tcalls = <<[key |-> "days_plural_2", count |-> 11]>>
    /\ result.str = <<"1", "1", " ">> \o RuDayWord.many

\* C6: without an explicit locale the effective locale is the detected one:
\* humanize('', format, baseUnit) returns what humanize(L, format, baseUnit)
\* returns, L being the detected locale, for every magnitude, format and baseUnit.
C6_DefaultLocale ==
    (IsHumanized({"long", "short"}) /\ result.locale = EmptyString) =>
        result.str = Humanize(self.milliseconds, DetectLanguage(navigator), result.format,
                              result.baseUnit, i18n, navigator).str

\* The zero duration strings.
ZeroEn ==
    [u \in UnitNames |->
        CASE u = "days" -> <<"0", " ", "d", "a", "y", "s">>
          [] u = "hours" -> <<"0", " ", "h", "o", "u", "r", "s">>
          [] u = "minutes" -> <<"0", " ", "m", "i", "n", "u", "t", "e", "s">>
          [] u = "seconds" -> <<"0", " ", "s", "e", "c", "o", "n", "d", "s">>]

ZeroRu ==
    [u \in UnitNames |->
        CASE u = "days" -> <<"0", " ", cyr_de, cyr_en, cyr_ie, cyr_short_i>>
          [] u = "hours" -> <<"0", " ", cyr_che, cyr_a, cyr_es, cyr_o, cyr_ve>>
          [] u = "minutes" -> <<"0", " ", cyr_em, cyr_i, cyr_en, cyr_u, cyr_te>>
          [] u = "seconds" -> <<"0", " ", cyr_es, cyr_ie, cyr_ka, cyr_u, cyr_en, cyr_de>>]

\* C7: when all four breakdown components are zero (every magnitude from 0 to
\* 999), humanize in format long or short returns the single string
\* "0 <unit>" for the requested baseUnit, in the class the value 0 selects:
\* the English plural for locale 'en', the Russian many form for locale 'ru';
\* the result is never empty.
C7_ZeroDuration ==
    /\ (IsHumanized({"long", "short"}) /\ self.milliseconds \in 0..999) =>
           result.diff = Breakdown(0, 0, 0, 0)
    /\ (IsHumanized({"long", "short"}) /\ result.diff = Breakdown(0, 0, 0, 0)) =>
           /\ result.str # EmptyString
           /\ Len(result.tcalls) = 1
           /\ result.tcalls[1].count = 0
           /\ result.tcalls[1].key \in KeysOf(result.baseUnit)
           /\ result.str = T(i18n.language, result.tcalls[1].key, 0)
           /\ result.locale = EN => result.str = ZeroEn[result.baseUnit]
           /\ result.locale = RU => result.str = ZeroRu[result.baseUnit]

C7_Witness ==
    /\ IsHumanized({"short"})
    /\ self.milliseconds = 999
    /\ result.locale = RU
    /\ result.baseUnit = "hours"
    /\ result.str = ZeroRu["hours"]

\* The units of a breakdown whose value is positive, in the fixed order.
PositiveUnits(b) == SelectSeq(Units, LAMBDA u : ValueOfUnit(b, u) > 0)

\* C8: for a magnitude with a non-zero breakdown component, humanize(locale,
\* 'long') returns the rendered strings of exactly the units whose value is
\* positive, each once, in the order days, hours, minutes, seconds, joined by
\* ", "; a unit whose value is zero never appears.
C8_Long ==
    (IsHumanized({"long"}) /\ result.diff # Breakdown(0, 0, 0, 0)) =>
        /\ Len(result.tcalls) = Len(PositiveUnits(result.diff))
        /\ \A k \in 1..Len(result.tcalls) :
               /\ result.tcalls[k].count = ValueOfUnit(result.diff, PositiveUnits(result.diff)[k])
               /\ result.tcalls[k].key \in KeysOf(PositiveUnits(result.diff)[k])
        /\ result.str =
               Join([k \in 1..Len(result.tcalls) |->
                        T(i18n.language, result.tcalls[k].key, result.tcalls[k].count)],
                    <<",", " ">>)
        /\ (self.milliseconds = Millis(1, 1, 2, 3) /\ result.locale = EN) =>
               result.str = <<"1", " ", "d", "a", "y", ",", " ", "1", " ", "h", "o", "u", "r",
                              ",", " ", "2", " ", "m", "i", "n", "u", "t", "e", "s",
                              ",", " ", "3", " ", "s", "e", "c", "o", "n", "d", "s">>
        /\ (self.milliseconds = Millis(0, 1, 0, 1) /\ result.locale = RU) =>
               result.str = <<"1", " ", cyr_che, cyr_a, cyr_es, ",", " ", "1", " ",
                              cyr_es, cyr_ie, cyr_ka, cyr_u, cyr_en, cyr_de, cyr_a>>

C8_Witness ==
    /\ IsHumanized({"long"})
    /\ result.locale = RU
    /\ self.milliseconds = Millis(0, 1, 0, 1) + 999
    /\ result.str = <<"1", " ", cyr_che, cyr_a, cyr_es, ",", " ", "1", " ",
                      cyr_es, cyr_ie, cyr_ka, cyr_u, cyr_en, cyr_de, cyr_a>>

\* The unit letters of the short format.
ShortLetters ==
    [u \in UnitNames |->
        CASE u = "days" -> [en |-> "d", ru |-> cyr_de]
          [] u = "hours" -> [en |-> "h", ru |-> cyr_che]
          [] u = "minutes" -> [en |-> "m", ru |-> cyr_em]
          [] u = "seconds" -> [en |-> "s", ru |-> cyr_es]]

\* The short tokens of a breakdown: "<value><letter>" of each positive unit.
ShortTokens(b, lang) ==
    [k \in 1..Len(PositiveUnits(b)) |->
        Decimal2(ValueOfUnit(b, PositiveUnits(b)[k]))
        \o <<IF lang = RU THEN ShortLetters[PositiveUnits(b)[k]].ru
             ELSE ShortLetters[PositiveUnits(b)[k]].en>>]

\* C9: for a magnitude with a non-zero breakdown component, humanize(locale,
\* 'short') returns, for exactly the positive units in the order days, hours,
\* minutes, seconds, the token "<value><letter>", joined by one space, the
\* letters being d/h/m/s for locale 'en' and the Cyrillic ones for locale 'ru'
\* (breakdown {0,2,0,0} gives "2h" and its Russian counterpart); without an
\* explicit locale the tokens are those of one of the two alphabets.
C9_Short ==
    (IsHumanized({"short"}) /\ result.diff # Breakdown(0, 0, 0, 0)) =>
        /\ result.locale \in {EN, RU} =>
               result.str = Join(ShortTokens(result.diff, result.locale), <<" ">>)
        /\ result.locale = EmptyString =>
               \E lang \in {EN, RU} :
                   result.str = Join(ShortTokens(result.diff, lang), <<" ">>)
        /\ (result.diff = Breakdown(0, 2, 0, 0) /\ result.locale = EN) =>
               result.str = <<"2", "h">>
        /\ (result.diff = Breakdown(0, 2, 0, 0) /\ result.locale = RU) =>
               result.str = <<"2", cyr_che>>

C9_Witness ==
    /\ IsHumanized({"short"})
    /\ result.locale = RU
    /\ result.diff = Breakdown(1, 0, 59, 1)
    /\ result.str = <<"1", cyr_de, " ", "5", "9", cyr_em, " ", "1", cyr_es>>

---------------------------------------------------------------------------
(* Parsing as a function of the text: fromISO, or the constructor, is       *)
(* applied to a text drawn from ParseTexts, and toISO to what it returned.  *)

Alphabet == {"P", "T", "D", "H", "M", "S", "1", "x"}

\* Every text of at most MaxTextLen characters of the alphabet.
ShortTexts == UNION {[1..n -> Alphabet] : n \in 0..MaxTextLen}

\* Durations with any of the components left out, and with numbers beyond the
\* clock ranges, alone or with a character before or after.
ComposedTexts ==
    {pre \o <<"P">> \o d \o <<"T">> \o h \o m \o s \o post :
        pre \in {<<>>, <<"x">>}, post \in {<<>>, <<"x">>},
        d \in {<<>>, <<"1", "D">>, <<"1", "0", "D">>},
        h \in {<<>>, <<"0", "H">>, <<"2", "4", "H">>},
        m \in {<<>>, <<"5", "M">>, <<"9", "0", "M">>},
        s \in {<<>>, <<"7", "S">>, <<"6", "0", "S">>}}

\* Durations with all four numbers present, as toISO writes them: the ends
\* of each range, a two-digit number, and the text of the tests.
CanonicalTexts ==
    {<<"P">> \o NumberToString(d) \o <<"D", "T">> \o NumberToString(h) \o <<"H">>
     \o NumberToString(m) \o <<"M">> \o NumberToString(s) \o <<"S">> :
        d \in {0, 1, 10, MaxDays}, h \in {0, 1, 10, 23},
        m \in {0, 1, 10, 59}, s \in {0, 1, 10, 59}}
    \cup {<<"P", "1", "D", "T", "2", "H", "3", "M", "4", "S">>}

ParseTexts == ShortTexts \cup ComposedTexts \cup CanonicalTexts

ParseInit ==
    /\ navigator = NavLanguage(<<"e", "n", "-", "U", "S">>)
    /\ i18n = I18nFresh
    /\ self = NoObj
    /\ result = NoResult
    /\ pending = <<>>

ParseNext ==
    \/ /\ result.op = "none"
       /\ \E t \in ParseTexts : FromISOCall(t)
    \/ /\ result.op = "none"
       /\ \E t \in ParseTexts : ConstructCall(JsString(t), JsUndefined)
    \/ /\ result.op \in {"fromISO", "new"}
       /\ ToISOCall

SpecParse == ParseInit /\ [][ParseNext]_vars

\* A run of one or more digits followed by the letter, or nothing.
IsOptionalGroup(seg, letter) ==
    \/ seg = <<>>
    \/ /\ Len(seg) >= 2
       /\ seg[Len(seg)] = letter
       /\ \A k \in 1..(Len(seg) - 1) : IsDigit(seg[k])

\* The text as a whole is P(\d+D)?T(\d+H)?(\d+M)?(\d+S)?
WholeMatch(t) ==
    /\ Len(t) >= 2
    /\ t[1] = "P"
    /\ \E a \in 2..Len(t) :
           /\ t[a] = "T"
           /\ IsOptionalGroup(SubSeq(t, 2, a - 1), "D")
           /\ \E b \in a..Len(t), c \in a..Len(t) :
                  /\ b <= c
                  /\ IsOptionalGroup(SubSeq(t, a + 1, b), "H")
                  /\ IsOptionalGroup(SubSeq(t, b + 1, c), "M")
                  /\ IsOptionalGroup(SubSeq(t, c + 1, Len(t)), "S")

\* C3: fromISO(text), and construction from a single string, fails with
\* 'Invalid ISO 8601 duration format' for every string that does not match
\* P(\d+D)?T(\d+H)?(\d+M)?(\d+S)? as a whole string, the empty string, a
\* string without the T and a matching fragment inside other text included.
C3_RejectsNonMatching ==
    (/\ result.op \in {"fromISO", "new"}
     /\ result.arg1.type = "string"
     /\ result.arg2.type = "undefined"
     /\ ~WholeMatch(result.arg1.str))
    => result.thrown = InvalidIso

---------------------------------------------------------------------------
(* Construction as a function of its arguments, in a runtime that has a     *)
(* `navigator`: every pairing of a first and a second argument.             *)

ConstructArg1 ==
    {JsNumber(n) : n \in SmallNumbers}
    \cup {JsDate(0), JsDate(SmallStep), JsDate(3 * SmallStep)}
    \cup {JsString(<<"P", "T", "3", "0", "S">>), JsString(<<"P", "1", "D">>)}
    \cup {JsUndefined}

ConstructArg2 ==
    {JsUndefined, JsNumber(SmallStep), JsString(<<"P", "T", "3", "0", "S">>),
     JsDate(0), JsDate(SmallStep), JsDate(3 * SmallStep)}

ConstructInit ==
    /\ navigator \in FormatNavigators
    /\ i18n = I18nFresh
    /\ self = NoObj
    /\ result = NoResult
    /\ pending = <<>>

ConstructNext ==
    \/ \E a1 \in ConstructArg1, a2 \in ConstructArg2 : ConstructCall(a1, a2)
    \/ ValueOfCall

SpecConstruct == ConstructInit /\ [][ConstructNext]_vars

\* C4: construction succeeds only for the three recognized argument shapes
\* (two instants, a single integer, a single string) and fails with 'Invalid
\* constructor arguments' for every other combination.
RecognizedShape(arg1, arg2) ==
    \/ arg1.type = "Date" /\ arg2.type = "Date"
    \/ arg1.type = "number" /\ arg2.type = "undefined"
    \/ arg1.type = "string" /\ arg2.type = "undefined"

C4_ConstructorShapes ==
    result.op = "new" =>
        /\ result.thrown = "" => RecognizedShape(result.arg1, result.arg2)
        /\ ~RecognizedShape(result.arg1, result.arg2) => result.thrown = InvalidArgs

---------------------------------------------------------------------------
(* The text round trip. *)

\* A decimal numeral without leading zeros.
IsNumeral(seg) ==
    /\ Len(seg) >= 1
    /\ \A k \in 1..Len(seg) : IsDigit(seg[k])
    /\ Len(seg) > 1 => seg[1] # "0"

\* A numeral of a number below n (n at most 100).
NumeralBelow(seg, n) ==
    /\ IsNumeral(seg)
    /\ Len(seg) <= 2
    /\ (IF Len(seg) = 1 THEN DigitValue(seg[1])
        ELSE 10 * DigitValue(seg[1]) + DigitValue(seg[2])) < n

\* P{d}DT{h}H{m}M{s}S with all four numbers present, no leading zeros,
\* h < 24, m < 60, s < 60.
Canonical(t) ==
    /\ Len(t) >= 10
    /\ t[1] = "P"
    /\ t[Len(t)] = "S"
    /\ \E iD \in 3..(Len(t) - 1) :
          /\ t[iD] = "D"
          /\ t[iD + 1] = "T"
          /\ IsNumeral(SubSeq(t, 2, iD - 1))
          /\ \E iH \in (iD + 3)..Len(t) :
                /\ t[iH] = "H"
                /\ NumeralBelow(SubSeq(t, iD + 2, iH - 1), 24)
                /\ \E iM \in (iH + 2)..(Len(t) - 2) :
                      /\ t[iM] = "M"
                      /\ NumeralBelow(SubSeq(t, iH + 1, iM - 1), 60)
                      /\ NumeralBelow(SubSeq(t, iM + 1, Len(t) - 1), 60)

\* C11: for every text P{d}DT{h}H{m}M{s}S with all four components present,
\* without leading zeros, h < 24, m < 60, s < 60, constructing from the text
\* (or fromISO of it) succeeds and toISO() on the value returns the identical
\* text.  The step is toISO called on what the construction just returned.
C11_TextRoundTrip ==
    /\ [](((result.op \in {"fromISO", "new"}) /\ result.arg1.type = "string"
           /\ Canonical(result.arg1.str)) => result.thrown = "")
    /\ [][(/\ result.op \in {"fromISO", "new"}
           /\ result.arg1.type = "string"
           /\ Canonical(result.arg1.str)
           /\ result'.op = "toISO")
          => result'.str = result.arg1.str]_vars

\* toISO has returned the text with the largest components, which came in as text.
C11_Witness ==
    /\ result.op = "toISO"
    /\ result.str \in CanonicalTexts
    /\ result.diff = Breakdown(MaxDays, 23, 59, 59)

---------------------------------------------------------------------------
(* Arithmetic. *)

\* C12: add(a, b) returns a new value whose valueOf() equals a.valueOf() +
\* b.valueOf(): the call succeeds, the returned instance holds the sum, and
\* valueOf() called on it next returns the sum.
C12_Add ==
    /\ [](result.op = "add" =>
            /\ result.thrown = ""
            /\ result.num = result.arg1.num + result.arg2.num
            /\ self = Obj(result.arg1.num + result.arg2.num))
    /\ [][(result.op = "add" /\ ValueOfCall)
          => result'.num = result.arg1.num + result.arg2.num]_vars

C12_Witness ==
    /\ result.op = "add"
    /\ result.arg1.num = SmallStep
    /\ result.arg2.num = SmallStep
    /\ result.num = 2 * SmallStep

\* C13: subtract(a, b) returns a new value whose valueOf() equals
\* abs(a.valueOf() - b.valueOf()); it is never negative, and it is what
\* subtract(b, a) returns.
C13_Subtract ==
    /\ [](result.op = "subtract" =>
            /\ result.thrown = ""
            /\ result.num = Abs(result.arg1.num - result.arg2.num)
            /\ result.num >= 0
            /\ result.num = Subtract(result.arg2.num, result.arg1.num, i18n, navigator).ms
            /\ self = Obj(result.num))
    /\ [][(result.op = "subtract" /\ ValueOfCall)
          => (result'.num = Abs(result.arg1.num - result.arg2.num) /\ result'.num >= 0)]_vars

\* The smaller value minus the larger one.
C13_Witness ==
    /\ result.op = "subtract"
    /\ result.arg1.num = 0
    /\ result.arg2.num = SmallStep
    /\ result.num = SmallStep

\* C14: constructing from two instants (t1, t2) yields the magnitude
\* abs(t2 - t1) in milliseconds, which is also what constructing from
\* (t2, t1) yields; valueOf() called next returns it.
C14_TwoInstants ==
    /\ []((result.op = "new" /\ result.arg1.type = "Date" /\ result.arg2.type = "Date") =>
            /\ result.thrown = ""
            /\ result.num = Abs(result.arg2.num - result.arg1.num)
            /\ result.num = Constructor(result.arg2, result.arg1, i18n, navigator).ms
            /\ self = Obj(result.num))
    /\ [][(/\ result.op = "new"
           /\ result.arg1.type = "Date"
           /\ result.arg2.type = "Date"
           /\ ValueOfCall)
          => result'.num = Abs(result.arg2.num - result.arg1.num)]_vars

\* The later instant given first.
C14_Witness ==
    /\ result.op = "new"
    /\ result.arg1 = JsDate(3 * SmallStep)
    /\ result.arg2 = JsDate(SmallStep)
    /\ result.num = 2 * SmallStep

---------------------------------------------------------------------------
(* Locale detection and the i18next singleton. *)

\* 'ru' if the runtime-provided locale string starts with 'ru', 'en' in every
\* other case, the string being undefined or unavailable included.
ExpectedLocale(nav) ==
    IF nav.declared /\ nav.hasLanguage /\ StartsWith(nav.language, RU) THEN RU ELSE EN

\* C15: locale detection returns 'ru' if the runtime-provided locale string
\* starts with 'ru' and 'en' in every other case, including when the string
\* is undefined or unavailable; it never fails.  Detection is seen where the
\* class calls it: a construction from a number of milliseconds that
\* initialises i18next completes and sets that language, and a humanize
\* without an explicit locale completes and switches to that language.
C15_DetectLanguage ==
    [][/\ \A n \in SmallNumbers :
             (/\ ~i18n.isInitialized
              /\ n >= 0
              /\ ConstructCall(JsNumber(n), JsUndefined))
             => (/\ result'.thrown = ""
                 /\ i18n'.isInitialized
                 /\ i18n'.language = ExpectedLocale(navigator))
       /\ \A f \in {"long", "short"}, b \in SmallBaseUnits :
             HumanizeCall(EmptyString, f, b)
             => (/\ result'.thrown = ""
                 /\ i18n'.language = ExpectedLocale(navigator))]_vars

\* C16: locale detection never overrides an explicit locale: for every
\* magnitude, format and baseUnit, humanize with a non-empty explicit locale
\* completes and returns the same string whatever the runtime-provided locale
\* string is.  The call just made is compared with the same call in a run
\* under each other `navigator`, i18next standing at that run's detected
\* language.
C16_ExplicitLocale ==
    (result.op = "humanize" /\ result.locale # EmptyString) =>
        /\ result.thrown = ""
        /\ \A nav \in Navigators :
               /\ Humanize(self.milliseconds, result.locale, result.format, result.baseUnit,
                           [i18n EXCEPT !.language = DetectLanguage(nav)], nav).thrown = ""
               /\ Humanize(self.milliseconds, result.locale, result.format, result.baseUnit,
                           [i18n EXCEPT !.language = DetectLanguage(nav)], nav).str
                  = result.str

\* English asked for where Russian is detected.
C16_Witness ==
    /\ result.op = "humanize"
    /\ result.locale = EN
    /\ result.format = "long"
    /\ DetectLanguage(navigator) = RU
    /\ self.milliseconds = Millis(0, 2, 0, 0)
    /\ result.str = <<"2", " ", "h", "o", "u", "r", "s">>

\* C17: construction initialises the localization table only when it is not
\* already initialized: over any sequence of constructions the built-in
\* resources are installed at most once, and once a hosting application has
\* initialized the table no construction re-initializes or replaces it.
C17_InitOnce ==
    /\ [](/\ i18n.inits <= 1
          /\ i18n.by = "host" => (i18n.isInitialized /\ i18n.inits = 0))
    /\ [][i18n.isInitialized =>
             (/\ i18n'.isInitialized
              /\ i18n'.by = i18n.by
              /\ i18n'.inits = i18n.inits)]_vars

\* Constructions (the operand's, then the one inside add) after the host's
\* initialisation.
C17_Witness ==
    /\ i18n.by = "host"
    /\ i18n.inits = 0
    /\ result.op = "add"
    /\ result.thrown = ""

\* C19: the instance operations plus and minus exist and are equivalent to
\* the static forms with this as first operand: a.plus(b).valueOf() equals
\* add(a, b).valueOf() and a.minus(b).valueOf() equals subtract(a, b).valueOf().
C19_PlusMinus ==
    /\ result.op = "plus" =>
           /\ result.thrown = ""
           /\ result.num = Add(result.arg1.num, result.arg2.num, i18n, navigator).ms
    /\ result.op = "minus" =>
           /\ result.thrown = ""
           /\ result.num = Subtract(result.arg1.num, result.arg2.num, i18n, navigator).ms

\* C20: the shared active locale is switched by each formatting call and
\* persists afterward: a humanize call that completes, whatever its format,
\* leaves the active locale of i18next at its effective locale (the explicit
\* argument, else the detected locale), and no other call (construction,
\* toISO, valueOf, add, subtract) changes the active locale of an initialized
\* i18next, so that it stays that of the most recently completed humanize.
C20_ActiveLocale ==
    [][/\ \A l \in Locales, f \in Formats, b \in SmallBaseUnits :
             (HumanizeCall(l, f, b) /\ result'.thrown = "")
             => i18n'.language = (IF l # EmptyString THEN l ELSE ExpectedLocale(navigator))
       /\ (/\ i18n.isInitialized
           /\ ~(\E l \in Locales, f \in Formats, b \in SmallBaseUnits : HumanizeCall(l, f, b)))
          => i18n'.language = i18n.language]_vars

---------------------------------------------------------------------------
(* The magnitude. *)

\* C18: the magnitude of every value is a non-negative integer: valueOf() >= 0
\* for every value obtained by any construction path (two instants, a single
\* integer, ISO text) and by any sequence of add and subtract.
C18_NonNegative ==
    /\ self.exists => self.milliseconds >= 0
    /\ result.op = "valueOf" => result.num >= 0

---------------------------------------------------------------------------
(* humanize calls from different call sites.  JavaScript runs a call to     *)
(* completion, so another call can come in between the steps of a humanize  *)
(* only from inside it: i18next.changeLanguage sets the language and then   *)
(* emits `languageChanged` to its listeners before it returns, and a        *)
(* listener of the hosting application may call humanize on an instance of  *)
(* its own.  The outer call then goes on to its i18next.t lookups.          *)

\* A humanize call that is inside i18next.changeLanguage.
Frame(ms, locale, format, baseUnit) ==
    [ms |-> ms, locale |-> locale, format |-> format, baseUnit |-> baseUnit]

Top(stack) == stack[Len(stack)]

\* humanize(locale, format, baseUnit) on an instance of ms milliseconds, up to
\* i18next.changeLanguage(locale || this.detectLanguage()): the language is
\* switched and the listeners run.  The outermost call is the caller's, on
\* self; a call made while another is pending is a listener's.
EnterHumanize(ms, locale, format, baseUnit, depth) ==
    /\ self.exists
    /\ Len(pending) < depth
    /\ pending = <<>> => ms = self.milliseconds
    /\ format # "iso"
    /\ ~(locale = EmptyString /\ DetectLanguageThrows(navigator))
    /\ i18n' = ChangeLanguage(i18n, EffectiveLanguage(locale, navigator))
    /\ pending' = Append(pending, Frame(ms, locale, format, baseUnit))
    /\ UNCHANGED <<navigator, self, result>>

\* The innermost pending call returns r.
HumanizeReturns(f, r) ==
    /\ result' = [Res("humanize", r.thrown) EXCEPT
                      !.str = r.str, !.num = f.ms, !.locale = f.locale, !.format = f.format,
                      !.baseUnit = f.baseUnit, !.diff = r.diff, !.tcalls = r.tcalls]
    /\ pending' = SubSeq(pending, 1, Len(pending) - 1)
    /\ UNCHANGED <<navigator, i18n, self>>

\* i18next.changeLanguage returns to the innermost pending call, which makes
\* its i18next.t lookups, in the language that is active now, and returns.
LeaveHumanize ==
    /\ pending # <<>>
    /\ HumanizeReturns(Top(pending),
                       Rendered(CalculateDiff(Top(pending).ms), Top(pending).locale,
                                Top(pending).format, ZeroDurationUnit(Top(pending).baseUnit),
                                i18n.language, i18n))

\* Every call is given an explicit locale.
ReentrantLocales == {EN, RU}
ReentrantMagnitudes == {0, Millis(0, 2, 0, 0)}

ReentrantInit ==
    \E ms \in ReentrantMagnitudes, nav \in FormatNavigators :
        /\ navigator = nav
        /\ i18n = Constructor(JsNumber(ms), JsUndefined, I18nFresh, nav).i18n
        /\ self = Obj(ms)
        /\ result = [Res("new", "") EXCEPT !.arg1 = JsNumber(ms), !.num = ms]
        /\ pending = <<>>

ReentrantNext ==
    \/ \E ms \in ReentrantMagnitudes, l \in ReentrantLocales, f \in {"long", "short"} :
           EnterHumanize(ms, l, f, "seconds", MaxNesting)
    \/ LeaveHumanize

SpecReentrant == ReentrantInit /\ [][ReentrantNext]_vars

\* C21: when humanize calls from different call sites interleave (each call
\* being a locale switch followed by its template lookups) and every call is
\* given an explicit locale, each call returns the string it would return if
\* run alone.
C21_NoCrossTalk ==
    (result.op = "humanize" /\ result.locale # EmptyString) =>
        result.str = Humanize(result.num, result.locale, result.format, result.baseUnit,
                              i18n, navigator).str

---------------------------------------------------------------------------
(* The breakdown below one second, the weighted sum of parsing, failed      *)
(* constructions, and the base unit.                                        *)

\* C22: floor invariant of the breakdown: for every magnitude (a non-negative
\* number of milliseconds), days*86400000 + hours*3600000 + minutes*60000 +
\* seconds*1000 <= magnitude < that sum + 1000, with hours in 0..23, minutes
\* in 0..59 and seconds in 0..59: the sub-second remainder is discarded,
\* never rounded up.  The breakdown is the one toISO and humanize worked from.
C22_Floor ==
    (/\ result.op = "toISO" \/ IsHumanized({"long", "short"})
     /\ self.milliseconds >= 0) =>
        /\ result.diff.days >= 0
        /\ result.diff.hours \in 0..23
        /\ result.diff.minutes \in 0..59
        /\ result.diff.seconds \in 0..59
        /\ Millis(result.diff.days, result.diff.hours, result.diff.minutes,
                  result.diff.seconds) <= self.milliseconds
        /\ self.milliseconds < Millis(result.diff.days, result.diff.hours,
                                      result.diff.minutes, result.diff.seconds) + 1000

\* One millisecond short of the next second, every component at its maximum.
C22_Witness ==
    /\ result.op = "toISO"
    /\ self.milliseconds = Millis(MaxDays, 23, 59, 59) + 999
    /\ result.diff = Breakdown(MaxDays, 23, 59, 59)

\* The number a group of the text writes: its digits read in base ten, 0 for
\* a group that is absent.
RECURSIVE DecimalValue(_)
DecimalValue(ds) ==
    IF ds = <<>> THEN 0
    ELSE 10 * DecimalValue(SubSeq(ds, 1, Len(ds) - 1)) + DigitValue(ds[Len(ds)])

GroupValue(seg) == IF seg = <<>> THEN 0 ELSE DecimalValue(SubSeq(seg, 1, Len(seg) - 1))

\* ms is the weighted sum of the components of the text P{d}DT{h}H{m}M{s}S,
\* any of the four groups absent.
IsWeightedSum(t, ms) ==
    \E a \in 2..Len(t) :
        /\ t[a] = "T"
        /\ IsOptionalGroup(SubSeq(t, 2, a - 1), "D")
        /\ \E b \in a..Len(t), c \in a..Len(t) :
               /\ b <= c
               /\ IsOptionalGroup(SubSeq(t, a + 1, b), "H")
               /\ IsOptionalGroup(SubSeq(t, b + 1, c), "M")
               /\ IsOptionalGroup(SubSeq(t, c + 1, Len(t)), "S")
               /\ ms = GroupValue(SubSeq(t, 2, a - 1)) * 86400000
                       + GroupValue(SubSeq(t, a + 1, b)) * 3600000
                       + GroupValue(SubSeq(t, b + 1, c)) * 60000
                       + GroupValue(SubSeq(t, c + 1, Len(t))) * 1000

\* C23: parsing computes the weighted sum of the components without
\* normalizing or bounding them: for every accepted text with components d,
\* h, m, s (an absent component counts as 0, so 'PT' gives 0), fromISO(text),
\* and construction from the text, give the value d*86400000 + h*3600000 +
\* m*60000 + s*1000, also when h >= 24, m >= 60 or s >= 60; 'PT90M' gives
\* 5400000, and toISO() on that value returns 'P0DT1H30M0S'.
C23_WeightedSum ==
    /\ []((/\ result.op \in {"fromISO", "new"}
           /\ result.arg1.type = "string"
           /\ result.arg2.type = "undefined"
           /\ WholeMatch(result.arg1.str))
          => (/\ result.thrown = ""
              /\ self.exists
              /\ self.milliseconds = result.num
              /\ IsWeightedSum(result.arg1.str, result.num)
              /\ result.arg1.str = <<"P", "T">> => result.num = 0
              /\ result.arg1.str = <<"P", "T", "9", "0", "M">> => result.num = 5400000))
    /\ [][(/\ result.op \in {"fromISO", "new"}
           /\ result.arg1 = JsString(<<"P", "T", "9", "0", "M">>)
           /\ result'.op = "toISO")
          => result'.str = <<"P", "0", "D", "T", "1", "H", "3", "0", "M", "0", "S">>]_vars

\* fromISO has returned the value of a text whose hours, minutes and seconds
\* are all beyond the clock ranges.
C23_Witness ==
    /\ result.op = "fromISO"
    /\ result.thrown = ""
    /\ result.arg1 = JsString(<<"P", "1", "0", "D", "T", "2", "4", "H", "9", "0", "M", "6", "0", "S">>)
    /\ result.num = 955860000
    /\ self = Obj(955860000)

\* C24: construction is all-or-nothing with respect to the shared
\* localization state: a construction that fails, for an invalid ISO text
\* (through the constructor or through fromISO) or for an invalid argument
\* combination, leaves i18next exactly as it was (still uninitialized if it
\* was) and produces no value: the caller holds what it held before.
C24_AllOrNothing ==
    [][(/\ result'.thrown \in {InvalidIso, InvalidArgs}
        /\ \/ \E a1 \in SmallArg1, a2 \in SmallArg2 : ConstructCall(a1, a2)
           \/ \E t \in SmallTexts : FromISOCall(t))
       => (/\ i18n' = i18n
           /\ i18n.isInitialized = i18n'.isInitialized
           /\ self' = self)]_vars

\* A construction from a text without the T has failed before anything was
\* constructed: i18next is still uninitialized and there is no value.
C24_Witness ==
    /\ result.op = "new"
    /\ result.arg1 = JsString(<<"P", "1", "D">>)
    /\ result.thrown = InvalidIso
    /\ i18n = I18nFresh
    /\ self = NoObj

\* C25: baseUnit only affects the zero-duration string: for every magnitude
\* with at least one non-zero breakdown component (one second or more), every
\* locale and every format, the string humanize(locale, format, baseUnit)
\* returned is the one it returns for each of the four baseUnit values; one
\* day with locale 'ru' is always '1 день'.
C25_BaseUnit ==
    (/\ result.op = "humanize"
     /\ result.thrown = ""
     /\ self.milliseconds >= 1000) =>
        /\ \A b \in BaseUnits :
               Humanize(self.milliseconds, result.locale, result.format, b,
                        i18n, navigator).str = result.str
        /\ (/\ self.milliseconds = Millis(1, 0, 0, 0)
            /\ result.locale = RU
            /\ result.format = "long") =>
               result.str = <<"1", " ">> \o RuDayWord.singular

\* One day written in Russian by a call whose baseUnit is 'hours'.
C25_Witness ==
    /\ result.op = "humanize"
    /\ result.locale = RU
    /\ result.format = "long"
    /\ result.baseUnit = "hours"
    /\ self.milliseconds = Millis(1, 0, 0, 0)
    /\ result.str = <<"1", " ">> \o RuDayWord.singular

============================================================================
